---- MODULE Spec2Model ----
(***************************************************************************)
(* Model of the endless runner in src/src/components/Game.tsx (the final   *)
(* variant of the game component).                                         *)
(*                                                                         *)
(* Units.  Lengths and velocities are fixed-point numbers in hundredths of *)
(* a logical unit (12.75 is 1275), a particle's life is in hundredths      *)
(* (1 is 100, the decay step 0.02 is 2), the clock is in milliseconds and  *)
(* a random draw r of Math.random() is the integer 100 * r in 0..99.       *)
(*                                                                         *)
(* React.  gameState, score and highScore are the values of the last       *)
(* render: they are what the closures of jump and of the game loop read.   *)
(* A setState call made inside the frame callback is an update in flight   *)
(* (pending); the action Commit is the re-render that applies it and       *)
(* re-runs the effects (the loop effect's cleanup and restart).  A         *)
(* setState call made by the input handler is flushed before the handler   *)
(* returns control (discrete event), so Jump includes its re-render.       *)
(*                                                                         *)
(* Environment.  Spec is the game in a browser with Web Audio and a steady *)
(* clock.  ClockSpec is the game under a clock that can stall, jump ahead  *)
(* or be set back between two frames; SilentSpec is the game in a browser  *)
(* whose sound functions throw.  BrowserSpec joins Spec and the runs of    *)
(* ClockSpec; EarlySpec is Spec for a player who starts to jump at frame   *)
(* 60, in sessions short enough to follow every particle to its end.       *)
(***************************************************************************)
EXTENDS Integers, Sequences, FiniteSets, TLC

\* ------------------------------------------------------------------ units
Scale == 10 * 10

\* ------------------------------------------------- constants of Game.tsx
GROUND_Y == 120 * Scale
PLAYER_WIDTH == 40 * Scale
PLAYER_HEIGHT == 50 * Scale
PLAYER_X == 80 * Scale
JUMP_FORCE == 15 * Scale
GRAVITY == (8 * Scale) \div 10
BASE_SPEED == 5 * Scale
SPEED_INCREMENT == (7 * Scale) \div 10
SPAWN_INTERVAL_BASE == 1800
SPAWN_INTERVAL_MIN == 800
POWERUP_SIZE == 25 * Scale

\* JUMP_FORCE * 0.85
DOUBLE_JUMP_FORCE == (JUMP_FORCE * 85) \div 100
\* the assumed frame duration in "spawnInterval / 16"
FRAME_MS == 16
\* frames between two power-up spawns
POWERUP_COOLDOWN == 500
\* reach added to the power-up's size in the pickup test
PICKUP_REACH == 20 * Scale
JUMP_PARTICLES == 8
DOUBLE_JUMP_PARTICLES == 6
DEATH_PARTICLES == 30
POWERUP_PARTICLES == 12
PARTICLE_LIFE == 1 * Scale
PARTICLE_DECAY == (2 * Scale) \div 100
PARTICLE_GRAVITY == (15 * Scale) \div 100

\* ----------------------------------------------------------------- bounds
\* frames executed in one behaviour
MaxTicks == 540
\* runs started in one behaviour
MaxRuns == 2
\* the player presses during play in bursts: from frame InputFrom of a run
\* on, during the first InputSpan + 1 frames of every InputPeriod frames
InputFrom == 498
InputSpan == 10
InputPeriod == 37
\* frames that run while a re-render is still outstanding
MaxStaleFrames == 1
\* failed power-up draws in one run
MaxMisses == 1
\* frames executed in one behaviour whose clock is unreliable, or whose
\* player jumps early
ClockTicks == 130
\* the first frame of the bursts of a player who jumps early
EarlyInputFrom == 60
\* clock anomalies in one behaviour, and the frames of a run that can see one
MaxAnomalies == 2
AnomalyFrames == 2

\* the devices: milliseconds between two frame callbacks
FrameDurations == {16, 80}
\* the playfield widths (canvas.width, at most 800)
CanvasWidths == {100 * Scale}
\* the stored best score found at startup (<<>>: no item)
StoredAtStartup == {<<>>, <<3>>}
\* Math.random() draws, as 100 * r
TypeDraws == {0, 50, 90}
OffsetDraws == {0, 99}
SpawnDraws == {0, 50}
ParticleDraws == {70}
\* what an unreliable clock adds to a frame's duration: set back by 20 s,
\* or a tab suspended for 25 s or 100 s
ClockJumps == {-20000, 25000, 100000}
\* a frame that comes half a second late (a hitch of the page)
ClockHitches == {500}

\* ---------------------------------------------------------------- helpers
Max(a, b) == IF a >= b THEN a ELSE b
Abs(a) == IF a >= 0 THEN a ELSE -a

Cos30 == <<1000, 978, 914, 809, 669, 500, 309, 105, -105, -309, -500, -669,
           -809, -914, -978, -1000, -978, -914, -809, -669, -500, -309, -105,
           105, 309, 500, 669, 809, 914, 978>>
Sin30 == <<0, 208, 407, 588, 743, 866, 951, 995, 995, 951, 866, 743, 588, 407,
           208, 0, -208, -407, -588, -743, -866, -951, -995, -995, -951, -866,
           -743, -588, -407, -208>>
Cos12 == <<1000, 866, 500, 0, -500, -866, -1000, -866, -500, 0, 500, 866>>
Sin12 == <<0, 500, 866, 1000, 866, 500, 0, -500, -866, -1000, -866, -500>>

\* ------------------------------------------------------------- RunState
\* useRef({...}): the record the component is constructed with
InitialGame ==
    [ playerY |-> GROUND_Y,
      velocityY |-> 0,
      isJumping |-> FALSE,
      hasDoubleJump |-> FALSE,
      usedDoubleJump |-> FALSE,
      obstacles |-> <<>>,
      particles |-> <<>>,
      powerUps |-> <<>>,
      speed |-> BASE_SPEED,
      lastSpawn |-> 0,
      lastPowerUpSpawn |-> 0,
      spawnInterval |-> SPAWN_INTERVAL_BASE,
      obstacleId |-> 0,
      powerUpId |-> 0,
      lastMilestone |-> 0,
      lastSpeedLevel |-> 0,
      frameCount |-> 0,
      startTime |-> 0 ]

Particle(x, y, vx, vy, size, color) ==
    [x |-> x, y |-> y, vx |-> vx, vy |-> vy, life |-> PARTICLE_LIFE,
     maxLife |-> PARTICLE_LIFE, size |-> size, color |-> color]

\* ------------------------------------------------------------ resetGame
\* resetGame that goes on into the jump branch
resetGame_thenJumps(g, t) ==
    [InitialGame EXCEPT !.startTime = t, !.velocityY = JUMP_FORCE,
                        !.isJumping = TRUE]

\* resetGame that clears the old record instead of replacing it, and
\* forgets one field
resetGame_keepsCharge(g, t) ==
    [InitialGame EXCEPT !.startTime = t, !.hasDoubleJump = g.hasDoubleJump]

\* gameRef.current = {...} at clock value t (g is the record it replaces)
resetGame(g, t) ==
    [ playerY |-> GROUND_Y,
      velocityY |-> 0,
      isJumping |-> FALSE,
      hasDoubleJump |-> FALSE,
      usedDoubleJump |-> FALSE,
      obstacles |-> <<>>,
      particles |-> <<>>,
      powerUps |-> <<>>,
      speed |-> BASE_SPEED,
      lastSpawn |-> 0,
      lastPowerUpSpawn |-> 0,
      spawnInterval |-> SPAWN_INTERVAL_BASE,
      obstacleId |-> 0,
      powerUpId |-> 0,
      lastMilestone |-> 0,
      lastSpeedLevel |-> 0,
      frameCount |-> 0,
      startTime |-> t ]

\* ------------------------------------------------------------- particles
spawnJumpParticles(g, r) ==
    [g EXCEPT !.particles = @ \o
        [i \in 1..JUMP_PARTICLES |->
            Particle(PLAYER_X + PLAYER_WIDTH \div 2 + ((r - 50) * 20 * Scale) \div 100,
                     GROUND_Y + 5 * Scale,
                     ((r - 50) * 4 * Scale) \div 100,
                     (r * 3 * Scale) \div 100 + 1 * Scale,
                     (r * 4 * Scale) \div 100 + 2 * Scale,
                     "hsl(180, 100%, 60%)")]]

spawnDoubleJumpParticles(g, r) ==
    [g EXCEPT !.particles = @ \o
        [i \in 1..DOUBLE_JUMP_PARTICLES |->
            Particle(PLAYER_X + PLAYER_WIDTH \div 2 + ((r - 50) * 15 * Scale) \div 100,
                     g.playerY + PLAYER_HEIGHT \div 2,
                     ((r - 50) * 3 * Scale) \div 100,
                     ((r - 50) * 3 * Scale) \div 100,
                     (r * 3 * Scale) \div 100 + 2 * Scale,
                     "hsl(60, 100%, 60%)")]]

\* the angle's random part is drawn as 0; r draws speed, size and colour
spawnDeathParticles(g, r) ==
    LET speed == (r * 8 * Scale) \div 100 + 4 * Scale
    IN [g EXCEPT !.particles = @ \o
        [i \in 1..DEATH_PARTICLES |->
            Particle(PLAYER_X + PLAYER_WIDTH \div 2,
                     g.playerY + PLAYER_HEIGHT \div 2,
                     (Cos30[i] * speed) \div 1000,
                     (Sin30[i] * speed) \div 1000,
                     (r * 6 * Scale) \div 100 + 3 * Scale,
                     IF r > 50 THEN "hsl(320, 100%, 60%)"
                               ELSE "hsl(180, 100%, 60%)")]]

spawnPowerUpParticles(particles, pu) ==
    particles \o
        [i \in 1..POWERUP_PARTICLES |->
            Particle(pu.x, pu.y, (Cos12[i] * 4 * Scale) \div 1000,
                     (Sin12[i] * 4 * Scale) \div 1000, 4 * Scale,
                     "hsl(60, 100%, 60%)")]

\* ------------------------------------------------------------------ jump
\* the branch of jump() taken while gameState is "playing":
\* "ground", "double" or "none"
JumpKind(g) ==
    IF ~g.isJumping THEN "ground"
    ELSE IF g.hasDoubleJump /\ ~g.usedDoubleJump THEN "double"
    ELSE "none"

\* a ground jump that also uses up the charge
groundJump_consumesCharge(g, r) ==
    spawnJumpParticles(
        [g EXCEPT !.velocityY = JUMP_FORCE,
                  !.isJumping = TRUE,
                  !.usedDoubleJump = FALSE,
                  !.hasDoubleJump = FALSE], r)

\* the first jump, from the ground
groundJump(g, r) ==
    spawnJumpParticles(
        [g EXCEPT !.velocityY = JUMP_FORCE,
                  !.isJumping = TRUE,
                  !.usedDoubleJump = FALSE], r)

\* a double jump with the force of a ground jump
doubleJump_fullForce(g, r) ==
    spawnDoubleJumpParticles(
        [g EXCEPT !.velocityY = JUMP_FORCE,
                  !.usedDoubleJump = TRUE,
                  !.hasDoubleJump = FALSE], r)

\* a double jump that adds its impulse to the current velocity
doubleJump_addsImpulse(g, r) ==
    spawnDoubleJumpParticles(
        [g EXCEPT !.velocityY = @ + DOUBLE_JUMP_FORCE,
                  !.usedDoubleJump = TRUE,
                  !.hasDoubleJump = FALSE], r)

\* a double jump that leaves the charge in place
doubleJump_keepsCharge(g, r) ==
    spawnDoubleJumpParticles(
        [g EXCEPT !.velocityY = DOUBLE_JUMP_FORCE,
                  !.usedDoubleJump = TRUE], r)

\* the double jump, in the air
doubleJump(g, r) ==
    spawnDoubleJumpParticles(
        [g EXCEPT !.velocityY = DOUBLE_JUMP_FORCE,
                  !.usedDoubleJump = TRUE,
                  !.hasDoubleJump = FALSE], r)

\* jump() whose second branch is a plain else
jump_doubleWithoutCharge(g, r) ==
    IF ~g.isJumping THEN groundJump(g, r) ELSE doubleJump(g, r)

\* jump() while gameState is "playing": the new gameRef.current
jump(g, r) ==
    IF ~g.isJumping THEN groundJump(g, r)
    ELSE IF g.hasDoubleJump /\ ~g.usedDoubleJump THEN doubleJump(g, r)
    ELSE g

\* jump() while gameState is "playing" when playJumpSound() throws (no Web
\* Audio): the assignments before the call are made, the particles after it
\* are not
jumpThrows(g) ==
    IF ~g.isJumping
    THEN [g EXCEPT !.velocityY = JUMP_FORCE,
                   !.isJumping = TRUE,
                   !.usedDoubleJump = FALSE]
    ELSE IF g.hasDoubleJump /\ ~g.usedDoubleJump
    THEN [g EXCEPT !.velocityY = DOUBLE_JUMP_FORCE,
                   !.usedDoubleJump = TRUE,
                   !.hasDoubleJump = FALSE]
    ELSE g

\* ---------------------------------------------------------------- update
\* elapsed milliseconds; elapsedSeconds is ElapsedMs / 1000
ElapsedMs(g, t) == t - g.startTime

\* a speed level that is rounded instead of floored
SpeedLevel_rounded(g, t) == (ElapsedMs(g, t) + 5000) \div 10000

\* Math.floor(elapsedSeconds / 10)
SpeedLevel(g, t) == ElapsedMs(g, t) \div 10000

\* a score that counts frames of 16 ms instead of reading the clock
NewScore_countsFrames(g, t) == (FRAME_MS * (g.frameCount + 1)) \div 100

\* Math.floor(elapsedSeconds * 10)
NewScore(g, t) == ElapsedMs(g, t) \div 100

\* a landing that keeps the falling velocity
physics_keepsVelocity(g) ==
    IF g.isJumping
    THEN LET v == g.velocityY - GRAVITY
             y == g.playerY + v
         IN IF y <= GROUND_Y
            THEN [g EXCEPT !.playerY = GROUND_Y, !.isJumping = FALSE,
                           !.velocityY = v]
            ELSE [g EXCEPT !.velocityY = v, !.playerY = y]
    ELSE g

\* player physics under half the gravity
physics_halfGravity(g) ==
    IF g.isJumping
    THEN LET v == g.velocityY - GRAVITY \div 2
             y == g.playerY + v
         IN IF y <= GROUND_Y
            THEN [g EXCEPT !.playerY = GROUND_Y, !.isJumping = FALSE,
                           !.velocityY = 0]
            ELSE [g EXCEPT !.velocityY = v, !.playerY = y]
    ELSE g

\* a landing that leaves the player where the fall has taken it
physics_noSnap(g) ==
    IF g.isJumping
    THEN LET v == g.velocityY - GRAVITY
             y == g.playerY + v
         IN IF y <= GROUND_Y
            THEN [g EXCEPT !.playerY = y, !.isJumping = FALSE, !.velocityY = 0]
            ELSE [g EXCEPT !.velocityY = v, !.playerY = y]
    ELSE g

\* player physics
physics(g) ==
    IF g.isJumping
    THEN LET v == g.velocityY - GRAVITY
             y == g.playerY + v
         IN IF y <= GROUND_Y
            THEN [g EXCEPT !.playerY = GROUND_Y, !.isJumping = FALSE,
                           !.velocityY = 0]
            ELSE [g EXCEPT !.velocityY = v, !.playerY = y]
    ELSE g

\* difficulty scaling whose spawn interval has no floor
difficulty_noFloor(g, lvl) ==
    [g EXCEPT !.lastSpeedLevel = IF lvl > @ THEN lvl ELSE @,
              !.speed = BASE_SPEED + lvl * SPEED_INCREMENT,
              !.spawnInterval = SPAWN_INTERVAL_BASE - lvl * 100]

\* difficulty scaling whose recorded level follows the clock down
difficulty_tracksLevel(g, lvl) ==
    [g EXCEPT !.lastSpeedLevel = lvl,
              !.speed = BASE_SPEED + lvl * SPEED_INCREMENT,
              !.spawnInterval = Max(SPAWN_INTERVAL_MIN,
                                    SPAWN_INTERVAL_BASE - lvl * 100)]

\* difficulty scaling that does not record the level it has announced
difficulty_forgetsLevel(g, lvl) ==
    [g EXCEPT !.speed = BASE_SPEED + lvl * SPEED_INCREMENT,
              !.spawnInterval = Max(SPAWN_INTERVAL_MIN,
                                    SPAWN_INTERVAL_BASE - lvl * 100)]

\* difficulty scaling for speed level lvl
difficulty(g, lvl) ==
    [g EXCEPT !.lastSpeedLevel = IF lvl > @ THEN lvl ELSE @,
              !.speed = BASE_SPEED + lvl * SPEED_INCREMENT,
              !.spawnInterval = Max(SPAWN_INTERVAL_MIN,
                                    SPAWN_INTERVAL_BASE - lvl * 100)]

\* types[Math.floor(Math.random() * types.length)]
ObstacleType(typeDraw) == <<"short", "tall", "flying">>[(typeDraw * 3) \div 100 + 1]

\* a flying obstacle at head height: 40 above the baseline
spawnObstacle_headHigh(g, width, typeDraw, offsetDraw) ==
    LET type == ObstacleType(typeDraw)
    IN [g EXCEPT !.obstacles = Append(@, [id |-> g.obstacleId,
                                          x |-> width + 50 * Scale,
                                          width |-> IF type = "short" THEN 25 * Scale
                                                    ELSE IF type = "tall" THEN 20 * Scale
                                                    ELSE 35 * Scale,
                                          height |-> IF type = "short" THEN 40 * Scale
                                                     ELSE IF type = "tall" THEN 70 * Scale
                                                     ELSE 30 * Scale,
                                          y |-> IF type = "flying"
                                                THEN GROUND_Y + 40 * Scale
                                                ELSE GROUND_Y]),
                 !.obstacleId = @ + 1]

\* an obstacle created at the right edge, without the margin
spawnObstacle_atEdge(g, width, typeDraw, offsetDraw) ==
    LET type == ObstacleType(typeDraw)
    IN [g EXCEPT !.obstacles = Append(@, [id |-> g.obstacleId,
                                          x |-> width,
                                          width |-> IF type = "short" THEN 25 * Scale
                                                    ELSE IF type = "tall" THEN 20 * Scale
                                                    ELSE 35 * Scale,
                                          height |-> IF type = "short" THEN 40 * Scale
                                                     ELSE IF type = "tall" THEN 70 * Scale
                                                     ELSE 30 * Scale,
                                          y |-> IF type = "flying"
                                                THEN GROUND_Y + 60 * Scale
                                                     + (offsetDraw * 30 * Scale) \div 100
                                                ELSE GROUND_Y]),
                 !.obstacleId = @ + 1]

spawnObstacle(g, width, typeDraw, offsetDraw) ==
    LET type == ObstacleType(typeDraw)
        shape == IF type = "short"
                 THEN [height |-> 40 * Scale, y |-> GROUND_Y, width |-> 25 * Scale]
                 ELSE IF type = "tall"
                 THEN [height |-> 70 * Scale, y |-> GROUND_Y, width |-> 20 * Scale]
                 ELSE [height |-> 30 * Scale,
                       y |-> GROUND_Y + 60 * Scale + (offsetDraw * 30 * Scale) \div 100,
                       width |-> 35 * Scale]
    IN [g EXCEPT !.obstacles = Append(@, [id |-> g.obstacleId,
                                          x |-> width + 50 * Scale,
                                          width |-> shape.width,
                                          height |-> shape.height,
                                          y |-> shape.y]),
                 !.obstacleId = @ + 1]

\* a spawn test with >= for >
ObstacleDue_inclusive(g) == FRAME_MS * (g.frameCount - g.lastSpawn) >= g.spawnInterval

\* frameCount - lastSpawn > spawnInterval / 16, for the incremented frameCount
ObstacleDue(g) == FRAME_MS * (g.frameCount - g.lastSpawn) > g.spawnInterval

\* frameCount++ and the obstacle spawn
obstacleSpawn(g, width, typeDraw, offsetDraw) ==
    LET g1 == [g EXCEPT !.frameCount = @ + 1]
    IN IF ObstacleDue(g1)
       THEN [spawnObstacle(g1, width, typeDraw, offsetDraw)
                EXCEPT !.lastSpawn = g1.frameCount]
       ELSE g1

\* a cooldown test with >= for >
PowerUpDue_inclusive(g) == g.frameCount - g.lastPowerUpSpawn >= POWERUP_COOLDOWN

\* frameCount - lastPowerUpSpawn > 500
PowerUpDue(g) == g.frameCount - g.lastPowerUpSpawn > POWERUP_COOLDOWN

\* a power-up spawn at the height of a grounded player's centre
powerUpSpawn_atCentre(g, width, spawnDraw, offsetDraw) ==
    IF PowerUpDue(g) /\ spawnDraw < 2
    THEN [g EXCEPT !.powerUps = Append(@, [id |-> g.powerUpId,
                                           x |-> width + 50 * Scale,
                                           y |-> GROUND_Y + PLAYER_HEIGHT \div 2
                                                 + (offsetDraw * 60 * Scale) \div 100,
                                           size |-> POWERUP_SIZE]),
                   !.powerUpId = @ + 1,
                   !.lastPowerUpSpawn = g.frameCount]
    ELSE g

\* ... && Math.random() < 0.02
powerUpSpawn(g, width, spawnDraw, offsetDraw) ==
    IF PowerUpDue(g) /\ spawnDraw < 2
    THEN [g EXCEPT !.powerUps = Append(@, [id |-> g.powerUpId,
                                           x |-> width + 50 * Scale,
                                           y |-> GROUND_Y + 80 * Scale
                                                 + (offsetDraw * 60 * Scale) \div 100,
                                           size |-> POWERUP_SIZE]),
                   !.powerUpId = @ + 1,
                   !.lastPowerUpSpawn = g.frameCount]
    ELSE g

\* obstacles.filter: every obstacle moves left, those with x > -100 stay
RECURSIVE ObstacleFilter(_, _)
ObstacleFilter(obstacles, speed) ==
    IF obstacles = <<>> THEN <<>>
    ELSE LET obs == [Head(obstacles) EXCEPT !.x = @ - speed]
         IN (IF obs.x > -100 * Scale THEN <<obs>> ELSE <<>>)
            \o ObstacleFilter(Tail(obstacles), speed)

\* an obstacle filter that keeps an obstacle at x = -100
moveObstacles_keepsEdge(g) ==
    LET moved == [i \in 1..Len(g.obstacles) |->
                     [g.obstacles[i] EXCEPT !.x = @ - g.speed]]
    IN [g EXCEPT !.obstacles =
           SelectSeq(moved, LAMBDA obs : obs.x >= -100 * Scale)]

moveObstacles(g) == [g EXCEPT !.obstacles = ObstacleFilter(@, g.speed)]

\* Math.sqrt(dx^2 + dy^2) < reach
DistLess(dx, dy, reach) ==
    /\ Abs(dx) < reach
    /\ Abs(dy) < reach
    /\ dx * dx + dy * dy < reach * reach

\* a pickup test that looks at the horizontal distance only
Collects_ignoresHeight(g, pu) ==
    Abs(pu.x - (PLAYER_X + PLAYER_WIDTH \div 2)) < pu.size + PICKUP_REACH

\* the pickup test of one power-up that has already moved
Collects(g, pu) ==
    DistLess(pu.x - (PLAYER_X + PLAYER_WIDTH \div 2),
             pu.y - (g.playerY + PLAYER_HEIGHT \div 2),
             pu.size + PICKUP_REACH)

\* powerUps.filter: acc is [kept, particles, collected] so far
RECURSIVE PowerUpFold(_, _, _)
PowerUpFold(g, pus, acc) ==
    IF pus = <<>> THEN acc
    ELSE LET pu == [Head(pus) EXCEPT !.x = @ - g.speed]
         IN IF Collects(g, pu)
            THEN PowerUpFold(g, Tail(pus),
                    [acc EXCEPT !.particles = spawnPowerUpParticles(@, pu),
                                !.collected = @ + 1])
            ELSE PowerUpFold(g, Tail(pus),
                    [acc EXCEPT !.kept = IF pu.x > -50 * Scale
                                         THEN Append(@, pu) ELSE @])

\* power-up movement that keeps the power-ups that have left the playfield
movePowerUps_keepsPassed(g) ==
    LET acc == PowerUpFold(g, g.powerUps,
                   [kept |-> <<>>, particles |-> g.particles, collected |-> 0])
        moved == [i \in 1..Len(g.powerUps) |->
                     [g.powerUps[i] EXCEPT !.x = @ - g.speed]]
    IN [game |-> [g EXCEPT !.powerUps =
                               SelectSeq(moved, LAMBDA pu : ~Collects(g, pu)),
                           !.particles = acc.particles,
                           !.hasDoubleJump = IF acc.collected > 0 THEN TRUE ELSE @],
        collected |-> acc.collected]


\* power-up movement and collection; collected counts the power-up cues
movePowerUps(g) ==
    LET acc == PowerUpFold(g, g.powerUps,
                   [kept |-> <<>>, particles |-> g.particles, collected |-> 0])
    IN [game |-> [g EXCEPT !.powerUps = acc.kept,
                           !.particles = acc.particles,
                           !.hasDoubleJump = IF acc.collected > 0 THEN TRUE ELSE @],
        collected |-> acc.collected]

\* checkCollision with inclusive comparisons
checkCollision_touching(g, obstacle) ==
    /\ PLAYER_X + PLAYER_WIDTH >= obstacle.x
    /\ PLAYER_X <= obstacle.x + obstacle.width
    /\ g.playerY + PLAYER_HEIGHT >= obstacle.y
    /\ g.playerY <= obstacle.y + obstacle.height

checkCollision(g, obstacle) ==
    LET playerLeft == PLAYER_X
        playerRight == PLAYER_X + PLAYER_WIDTH
        playerTop == g.playerY + PLAYER_HEIGHT
        playerBottom == g.playerY
        obsLeft == obstacle.x
        obsRight == obstacle.x + obstacle.width
        obsTop == obstacle.y + obstacle.height
        obsBottom == obstacle.y
    IN /\ playerRight > obsLeft
       /\ playerLeft < obsRight
       /\ playerTop > obsBottom
       /\ playerBottom < obsTop

\* the loop over game.obstacles finds a hit
Collides(g) == \E i \in 1..Len(g.obstacles) : checkCollision(g, g.obstacles[i])

\* particles.filter: every particle moves and decays, those with life > 0
\* stay
RECURSIVE ParticleFilter(_)
ParticleFilter(particles) ==
    IF particles = <<>> THEN <<>>
    ELSE LET p == Head(particles)
             q == [p EXCEPT !.x = @ + p.vx, !.y = @ + p.vy,
                            !.vy = @ - PARTICLE_GRAVITY,
                            !.life = @ - PARTICLE_DECAY]
         IN (IF q.life > 0 THEN <<q>> ELSE <<>>)
            \o ParticleFilter(Tail(particles))

\* a particle update that keeps a particle until its life is negative
updateParticles_keepsSpent(g) ==
    LET alive == SelectSeq(g.particles,
                           LAMBDA p : p.life - PARTICLE_DECAY >= 0)
    IN [g EXCEPT !.particles =
           [i \in 1..Len(alive) |->
               [alive[i] EXCEPT !.x = @ + alive[i].vx, !.y = @ + alive[i].vy,
                                !.vy = @ - PARTICLE_GRAVITY,
                                !.life = @ - PARTICLE_DECAY]]]

updateParticles(g) == [g EXCEPT !.particles = ParticleFilter(@)]

\* a milestone guard with a boundary every 50 points
milestone_everyFifty(g, newScore) ==
    [g EXCEPT !.lastMilestone = IF newScore \div 50 > @ THEN newScore \div 50 ELSE @]

\* a milestone guard that does not record the boundary it has announced
milestone_forgetsBoundary(g, newScore) == g

\* the milestone guard
milestone(g, newScore) ==
    [g EXCEPT !.lastMilestone = IF newScore \div 100 > @ THEN newScore \div 100 ELSE @]

\* a collision branch that sends the run back to the start screen
onCollision_toIdle(g, r) ==
    [game |-> spawnDeathParticles(g, r), state |-> <<"idle">>]

\* the branch taken on the first hit: spawnDeathParticles() and
\* setGameState("dead")
onCollision(g, r) ==
    [game |-> spawnDeathParticles(g, r), state |-> <<"dead">>]

\* an update whose collision test reads the positions of the tick before
update_collidesFirst(g, t, width, d) ==
    LET lvl == SpeedLevel(g, t)
        g1 == physics(g)
        g2 == difficulty(g1, lvl)
        g3 == obstacleSpawn(g2, width, d.type, d.offset)
        g4 == powerUpSpawn(g3, width, d.spawn, d.puOffset)
        g5 == moveObstacles(g4)
        m == movePowerUps(g5)
        g6 == m.game
        early == [speedUp |-> IF lvl > g.lastSpeedLevel THEN 1 ELSE 0,
                  powerUp |-> m.collected]
    IN IF Collides(g)
       THEN [game |-> onCollision(g6, d.particle).game,
             state |-> onCollision(g6, d.particle).state,
             score |-> <<>>,
             speedUp |-> early.speedUp, powerUp |-> early.powerUp,
             crash |-> 1, milestone |-> 0]
       ELSE LET g7 == updateParticles(g6)
                newScore == NewScore(g, t)
            IN [game |-> milestone(g7, newScore),
                state |-> <<>>,
                score |-> <<newScore>>,
                speedUp |-> early.speedUp, powerUp |-> early.powerUp,
                crash |-> 0,
                milestone |-> IF newScore \div 100 > g7.lastMilestone THEN 1 ELSE 0]

\* update() at clock value t on a canvas of the given width; d holds the
\* random draws.  The result: the new gameRef.current, the arguments of
\* setGameState and of setScore (<<>>: not called), and the cues played.
update(g, t, width, d) ==
    LET lvl == SpeedLevel(g, t)
        g1 == physics(g)
        g2 == difficulty(g1, lvl)
        g3 == obstacleSpawn(g2, width, d.type, d.offset)
        g4 == powerUpSpawn(g3, width, d.spawn, d.puOffset)
        g5 == moveObstacles(g4)
        m == movePowerUps(g5)
        g6 == m.game
        early == [speedUp |-> IF lvl > g.lastSpeedLevel THEN 1 ELSE 0,
                  powerUp |-> m.collected]
    IN IF Collides(g6)
       THEN [game |-> onCollision(g6, d.particle).game,
             state |-> onCollision(g6, d.particle).state,
             score |-> <<>>,
             speedUp |-> early.speedUp, powerUp |-> early.powerUp,
             crash |-> 1, milestone |-> 0]
       ELSE LET g7 == updateParticles(g6)
                newScore == NewScore(g, t)
            IN [game |-> milestone(g7, newScore),
                state |-> <<>>,
                score |-> <<newScore>>,
                speedUp |-> early.speedUp, powerUp |-> early.powerUp,
                crash |-> 0,
                milestone |-> IF newScore \div 100 > g7.lastMilestone THEN 1 ELSE 0]

\* powerUps.filter when playPowerUpSound() throws: the power-ups up to the
\* first collected one have moved, the array is not replaced, the charge is
\* set and no particle is pushed
movePowerUpsThrows(g) ==
    LET moved(i) == [g.powerUps[i] EXCEPT !.x = @ - g.speed]
        hits == {i \in 1..Len(g.powerUps) : Collects(g, moved(i))}
        first == CHOOSE i \in hits : \A j \in hits : i <= j
    IN IF hits = {}
       THEN [game |-> movePowerUps(g).game, thrown |-> FALSE]
       ELSE [game |-> [g EXCEPT !.powerUps =
                                   [i \in 1..Len(g.powerUps) |->
                                       IF i <= first THEN moved(i)
                                       ELSE g.powerUps[i]],
                                !.hasDoubleJump = TRUE],
             thrown |-> TRUE]

\* update() when every sound function throws: the statements up to the
\* first cue call are executed, the exception leaves update() and gameLoop()
\* (thrown), and requestAnimationFrame is not reached
updateThrows(g, t, width, d) ==
    LET lvl == SpeedLevel(g, t)
        g1 == physics(g)
        g2 == difficulty(g1, lvl)
        g3 == obstacleSpawn(g2, width, d.type, d.offset)
        g4 == powerUpSpawn(g3, width, d.spawn, d.puOffset)
        g5 == moveObstacles(g4)
        m == movePowerUpsThrows(g5)
        g6 == m.game
        g7 == updateParticles(g6)
        newScore == NewScore(g, t)
        aborted(h, st) == [game |-> h, state |-> st, score |-> <<>>,
                           thrown |-> TRUE]
    IN IF lvl > g.lastSpeedLevel
       THEN aborted([g1 EXCEPT !.lastSpeedLevel = lvl], <<>>)
       ELSE IF m.thrown
       THEN aborted(g6, <<>>)
       ELSE IF Collides(g6)
       THEN aborted(onCollision(g6, d.particle).game,
                    onCollision(g6, d.particle).state)
       ELSE IF newScore \div 100 > g7.lastMilestone
       THEN aborted(milestone(g7, newScore), <<>>)
       ELSE [game |-> g7, state |-> <<>>, score |-> <<newScore>>,
             thrown |-> FALSE]

\* ----------------------------------------------------------------- state
VARIABLES
    gameState,   \* useState: the rendered run state
    score,       \* useState: the rendered score
    highScore,   \* useState: the rendered best score
    pending,     \* setState calls of the frame callback not yet rendered
    game,        \* gameRef.current
    scheduled,   \* the frame callbacks scheduled and not yet run or cancelled
    storage,     \* localStorage item "neonRunnerHighScore"
    now,         \* Date.now()
    frameMs,     \* the device's time between two frame callbacks
    canvasWidth, \* canvas.width
    cues,        \* how often each sound function has been called
    writes,      \* how often localStorage.setItem has been called
    op,          \* the step taken last
    ticks,       \* frames executed so far
    runs,        \* runs started so far
    doubles,     \* double jumps since the player last left the ground
    stale,       \* frames run since the oldest outstanding setState
    misses,      \* failed power-up draws in this run
    runCues,     \* the cues played since the run was started
    audio,       \* the Web Audio API is available: the sound functions return
    clockFaults, \* Date.now() is unreliable: it can stall or jump
    anomalies,   \* clock anomalies so far
    early        \* the player starts to jump early in the run

vars == <<gameState, score, highScore, pending, game, scheduled, storage, now,
          frameMs, canvasWidth, cues, writes, op, ticks, runs, doubles,
          stale, misses, runCues, audio, clockFaults, anomalies, early>>

NoCues == [jump |-> 0, crash |-> 0, milestone |-> 0, speedUp |-> 0,
           powerUp |-> 0]

\* updateSize(): the canvas is half as high as it is wide (at most 800 x 400)
canvasHeight == canvasWidth \div 2

\* a frame callback is scheduled (animationId is live)
rafPending == scheduled > 0

\* requestAnimationFrame(gameLoop): one more callback is scheduled
requestAnimationFrame(n) == n + 1

\* an effect cleanup that cancels nothing
cancelAnimationFrame_skipped(n) == n

\* cancelAnimationFrame(animationId): the callback scheduled last, if it has
\* not run yet, is withdrawn
cancelAnimationFrame(n) == IF n > 0 THEN n - 1 ELSE 0

\* a render that counts the frame it paints
draw_countsFrame(g) == [g EXCEPT !.frameCount = @ + 1]

\* draw(): paints gameRef.current on the canvas; it assigns no field of
\* gameRef.current and calls no state setter
draw(g) == g

NoUpdates == [gameState |-> <<>>, score |-> <<>>, highScore |-> <<>>]

\* a setState(v) call: React drops it when nothing is outstanding and v is
\* the rendered value
SetState(queued, rendered, v) ==
    IF queued = <<>> /\ v = rendered THEN <<>> ELSE <<v>>

\* the value a state variable has once the outstanding updates are rendered
Latest(queued, rendered) == IF queued = <<>> THEN rendered ELSE queued[1]

\* the run state, the score and the best score as set so far
runState == Latest(pending.gameState, gameState)
runScore == Latest(pending.score, score)
runBest == Latest(pending.highScore, highScore)

\* useState(() => { saved ? parseInt(saved) : 0 })
loadBest(item) == IF item = <<>> THEN 0 ELSE item[1]

\* the component after its first render
Mounted ==
    /\ gameState = "idle"
    /\ score = 0
    /\ storage \in StoredAtStartup
    /\ highScore = loadBest(storage)
    /\ pending = NoUpdates
    /\ game = InitialGame
    /\ scheduled = 0
    /\ now = 5000
    /\ frameMs \in FrameDurations
    /\ canvasWidth \in CanvasWidths
    /\ cues = NoCues
    /\ writes = 0
    /\ op = "init"
    /\ ticks = 0
    /\ runs = 0
    /\ doubles = 0
    /\ stale = 0
    /\ misses = 0
    /\ runCues = NoCues
    /\ anomalies = 0

\* a browser with Web Audio and a steady clock
Init == Mounted /\ audio = TRUE /\ clockFaults = FALSE /\ early = FALSE

\* a browser whose clock is unreliable
InitClock == Mounted /\ audio = TRUE /\ clockFaults = TRUE /\ early = FALSE

\* a browser without Web Audio
InitSilent == Mounted /\ audio = FALSE /\ clockFaults = FALSE /\ early = FALSE

\* a browser with Web Audio whose clock is steady or unreliable
InitBrowser ==
    Mounted /\ audio = TRUE /\ clockFaults \in BOOLEAN /\ early = FALSE

\* a player who starts to jump early, in a short session
\* input from early in the run on a page whose first frames hitch
InitHitch ==
    Mounted /\ audio = TRUE /\ clockFaults = TRUE /\ early = TRUE

InitEarly == Mounted /\ audio = TRUE /\ clockFaults = FALSE /\ early = TRUE

\* jump() in state idle or dead: resetGame(), setGameState("playing"), and
\* the re-render that starts the game loop
Start ==
    /\ gameState \in {"idle", "dead"}
    /\ runs < MaxRuns
    /\ game' = resetGame(game, now)
    /\ score' = 0
    /\ gameState' = "playing"
    /\ scheduled' = requestAnimationFrame(scheduled)
    /\ op' = "start"
    /\ runs' = runs + 1
    /\ doubles' = 0
    /\ misses' = 0
    /\ runCues' = NoCues
    /\ UNCHANGED <<highScore, pending, storage, now, frameMs, canvasWidth,
                   cues, writes, ticks, stale, audio, clockFaults, anomalies,
                   early>>

\* jump() in state playing
Press ==
    /\ gameState = "playing"
    /\ LET from == IF early THEN EarlyInputFrom ELSE InputFrom
       IN /\ game.frameCount >= from
          /\ (game.frameCount - from) % InputPeriod <= InputSpan
    /\ \E r \in ParticleDraws :
          LET played == IF audio /\ JumpKind(game) # "none" THEN 1 ELSE 0
          IN /\ game' = IF audio THEN jump(game, r) ELSE jumpThrows(game)
             /\ cues' = [cues EXCEPT !.jump = @ + played]
             /\ runCues' = [runCues EXCEPT !.jump = @ + played]
             /\ op' = JumpKind(game)
    /\ doubles' = IF JumpKind(game) = "ground" THEN 0
                  ELSE IF JumpKind(game) = "double" THEN doubles + 1
                  ELSE doubles
    /\ UNCHANGED <<gameState, score, highScore, pending, scheduled, storage,
                   now, frameMs, canvasWidth, writes, ticks, runs, stale,
                   misses, audio, clockFaults, anomalies, early>>

\* the clock's advance from one frame callback to the next
Steps ==
    IF clockFaults /\ anomalies < MaxAnomalies /\ game.frameCount < AnomalyFrames
    THEN IF early THEN {frameMs} \cup {frameMs + j : j \in ClockHitches}
         ELSE {frameMs, 0} \cup {frameMs + j : j \in ClockJumps}
    ELSE {frameMs}

\* the draws update() makes in the frame at clock value t (one value where
\* none is made)
Draws(t) ==
    LET g2 == [game EXCEPT !.frameCount = @ + 1,
                  !.spawnInterval = Max(SPAWN_INTERVAL_MIN, SPAWN_INTERVAL_BASE
                                          - SpeedLevel(game, t) * 100)]
        od == ObstacleDue(g2)
        pd == PowerUpDue(g2)
    IN { d \in [type : IF od THEN TypeDraws ELSE {0},
                offset : IF od THEN OffsetDraws ELSE {0},
                spawn : IF pd THEN SpawnDraws ELSE {50},
                puOffset : IF pd THEN OffsetDraws ELSE {0},
                particle : ParticleDraws] :
           /\ (ObstacleType(d.type) # "flying" => d.offset = 0)
           /\ (d.spawn >= 2 => d.puOffset = 0 /\ (pd => misses < MaxMisses)) }

\* gameLoop: update(), draw(), requestAnimationFrame(gameLoop)
Frame ==
    /\ rafPending
    /\ ticks < (IF clockFaults \/ early THEN ClockTicks ELSE MaxTicks)
    /\ pending # NoUpdates => stale < MaxStaleFrames
    /\ \E dt \in Steps : \E d \in Draws(now + dt) :
          LET t == now + dt
              u == IF audio THEN update(game, t, canvasWidth, d)
                            ELSE updateThrows(game, t, canvasWidth, d)
              thrown == ~audio /\ u.thrown
              dead == u.state # <<>>
              best == dead /\ ~thrown /\ score > highScore
          IN /\ now' = t
             /\ game' = draw(u.game)
             /\ pending' =
                  IF dead
                  THEN [pending EXCEPT
                          !.gameState = SetState(@, gameState, u.state[1]),
                          !.highScore = IF best THEN SetState(@, highScore, score)
                                        ELSE @]
                  ELSE IF thrown THEN pending
                  ELSE [pending EXCEPT
                          !.score = SetState(@, score, u.score[1])]
             /\ storage' = IF best THEN <<score>> ELSE storage
             /\ writes' = IF best THEN writes + 1 ELSE writes
             /\ cues' = IF audio
                        THEN [cues EXCEPT !.crash = @ + u.crash,
                                          !.milestone = @ + u.milestone,
                                          !.speedUp = @ + u.speedUp,
                                          !.powerUp = @ + u.powerUp]
                        ELSE cues
             /\ runCues' = [c \in DOMAIN cues |-> runCues[c] + cues'[c] - cues[c]]
             /\ op' = IF dead THEN "death" ELSE "tick"
             /\ misses' = IF PowerUpDue(u.game) /\ d.spawn >= 2
                          THEN misses + 1 ELSE misses
             /\ scheduled' = IF thrown THEN scheduled - 1
                             ELSE requestAnimationFrame(scheduled - 1)
             /\ anomalies' = IF dt = frameMs THEN anomalies ELSE anomalies + 1
    /\ ticks' = ticks + 1
    /\ stale' = IF pending # NoUpdates THEN stale + 1 ELSE 0
    /\ UNCHANGED <<gameState, score, highScore, frameMs, canvasWidth, runs,
                   doubles, audio, clockFaults, early>>

\* the re-render for the outstanding updates and its effects: the loop
\* effect's cleanup cancels the scheduled frame, and the effect schedules a
\* new one only when the rendered state is playing
Commit ==
    /\ pending # NoUpdates
    /\ gameState' = runState
    /\ score' = runScore
    /\ highScore' = runBest
    /\ pending' = NoUpdates
    /\ scheduled' =
         IF <<runState, runScore, runBest>> # <<gameState, score, highScore>>
         THEN LET kept == IF gameState = "playing"
                          THEN cancelAnimationFrame(scheduled) ELSE scheduled
              IN IF runState = "playing" THEN requestAnimationFrame(kept)
                 ELSE kept
         ELSE scheduled
    /\ stale' = 0
    /\ op' = "commit"
    /\ UNCHANGED <<game, storage, now, frameMs, canvasWidth, cues, writes,
                   ticks, runs, doubles, misses, runCues, audio, clockFaults,
                   anomalies, early>>

Next == Start \/ Press \/ Frame \/ Commit

Spec == Init /\ [][Next]_vars

\* the runs of a player who never jumps, under an unreliable clock
NextClock == Start \/ Frame \/ Commit

ClockSpec == InitClock /\ [][NextClock]_vars

\* the runs in a browser without Web Audio
SilentSpec == InitSilent /\ [][Next]_vars

\* the runs under a steady and under an unreliable clock
BrowserSpec == InitBrowser /\ [][Next]_vars

\* the short sessions of a player who jumps early
EarlySpec == InitEarly /\ [][Next]_vars
HitchSpec == InitHitch /\ [][Next]_vars

\* ---------------------------------------------------------------- claims
\* the step is an activate input (a call of jump())
InputStep == op' \in {"start", "ground", "double", "none"}
\* the step is a call of jump() that found gameState "playing"
PressStep == op' \in {"ground", "double", "none"}
\* the step is a frame callback (an update tick)
TickStep == op' \in {"tick", "death"}

\* new is old with exactly n elements appended
Appended(old, new, n) ==
    /\ Len(new) = Len(old) + n
    /\ SubSeq(new, 1, Len(old)) = old

\* the records g and h agree on every field outside fields
SameExcept(g, h, fields) == \A f \in (DOMAIN g) \ fields : g[f] = h[f]

\* the fresh RunState of the specification, started at clock value t
FreshRunState(t) ==
    [ playerY |-> 120 * Scale, velocityY |-> 0, isJumping |-> FALSE,
      hasDoubleJump |-> FALSE, usedDoubleJump |-> FALSE,
      obstacles |-> <<>>, particles |-> <<>>, powerUps |-> <<>>,
      speed |-> 5 * Scale, lastSpawn |-> 0, lastPowerUpSpawn |-> 0,
      spawnInterval |-> 1800, obstacleId |-> 0, powerUpId |-> 0,
      lastMilestone |-> 0, lastSpeedLevel |-> 0, frameCount |-> 0,
      startTime |-> t ]

\* the player's box [80,120] x [playerY, playerY+50] strictly overlaps the
\* box of some live obstacle on both axes
Overlap(g) ==
    \E i \in 1..Len(g.obstacles) :
        LET o == g.obstacles[i]
        IN /\ o.x < 120 * Scale
           /\ 80 * Scale < o.x + o.width
           /\ o.y < g.playerY + 50 * Scale
           /\ g.playerY < o.y + o.height

\* C1: an activate input that jump() receives with gameState idle or dead
\* moves the run to playing, replaces RunState by a fresh one whose start
\* timestamp is the current clock value and sets the score to 0; the input
\* is not executed as a jump: the player is grounded at the baseline with
\* velocity 0, no particle exists and no jump cue is played.
C1_ActivateStartsRun ==
    [][ (InputStep /\ gameState \in {"idle", "dead"}) =>
          /\ op' = "start"
          /\ gameState' = "playing" /\ runState' = "playing"
          /\ game'.startTime = now'
          /\ score' = 0 /\ runScore' = 0
          /\ game'.playerY = 120 * Scale /\ game'.velocityY = 0
          /\ ~game'.isJumping
          /\ game'.particles = <<>>
          /\ game' = FreshRunState(now')
          /\ cues' = cues
          /\ rafPending' ]_vars

\* a run has been restarted from dead, after a crash
C1_Witness == op = "start" /\ runs = 2 /\ cues.crash >= 1 /\ gameState = "playing"

\* C2: whatever the history, a reset yields the initial RunState in every
\* field but the start timestamp, and score 0; a second reset changes
\* nothing.
C2_ResetIsFresh ==
    /\ resetGame(game, now) = [InitialGame EXCEPT !.startTime = now]
    /\ resetGame(game, now) = FreshRunState(now)
    /\ resetGame(resetGame(game, now), now) = resetGame(game, now)
    /\ op = "start" => /\ game = [InitialGame EXCEPT !.startTime = now]
                       /\ score = 0 /\ runScore = 0

\* a second run has been started after a run with jumps, a collected
\* power-up and a death
C2_Witness ==
    /\ op = "start" /\ runs = 2
    /\ cues.powerUp >= 1 /\ cues.jump >= 2 /\ cues.crash >= 1

\* C3: the run state changes only from idle or dead to playing, by an
\* activate input, and from playing to dead, by a tick that detected a
\* collision; the rendered state follows by the input itself or by the
\* re-render after the death tick.  So no tick changes the state while it is
\* idle or dead, no input changes it while playing, and idle is never
\* entered.
C3_Transitions ==
    [][ /\ runState' # runState =>
             \/ /\ runState \in {"idle", "dead"} /\ runState' = "playing"
                /\ op' = "start"
             \/ /\ runState = "playing" /\ runState' = "dead"
                /\ op' = "death" /\ Overlap(game')
        /\ gameState' # gameState =>
             \/ /\ gameState \in {"idle", "dead"} /\ gameState' = "playing"
                /\ op' = "start"
             \/ /\ gameState = "playing" /\ gameState' = "dead"
                /\ op' = "commit" /\ runState = "dead"
        /\ runState' # "idle" ]_vars

\* the second run has ended in a collision too
C3_Witness == runs = 2 /\ runState = "dead" /\ gameState = "dead"

C5_FrozenAfterDeath ==
    [][ (runState = "dead" /\ ~InputStep) =>
          /\ ~TickStep
          /\ game' = game
          /\ runScore' = runScore
          /\ cues' = cues ]_vars

\* C6: the tick that ends a run leaves max(stored best, the run's score) in
\* the store; the store is written only by such a tick and only with a score
\* strictly greater than the stored best; the stored best never decreases.
C6_BestScore ==
    [][ /\ (op' = "death" /\ runState = "playing") =>
              loadBest(storage') = Max(loadBest(storage), runScore)
        /\ writes' # writes =>
              /\ op' = "death" /\ runState = "playing"
              /\ runScore > loadBest(storage)
              /\ writes' = writes + 1
        /\ storage' # storage => writes' # writes
        /\ loadBest(storage') >= loadBest(storage) ]_vars

\* C7: a jump() while playing and on the ground sets the velocity to 15,
\* marks the player airborne, clears the consumed flag, plays the jump cue
\* once and appends exactly 8 dust particles; the charge, the position, the
\* obstacles, the power-ups and the counters stay as they are.
C7_GroundJump ==
    [][ (PressStep /\ ~game.isJumping) =>
          /\ op' = "ground"
          /\ game'.velocityY = 15 * Scale
          /\ game'.isJumping
          /\ ~game'.usedDoubleJump
          /\ Appended(game.particles, game'.particles, 8)
          /\ \A i \in 1..Len(game'.particles) :
                i > Len(game.particles) =>
                   /\ game'.particles[i].y = 125 * Scale
                   /\ game'.particles[i].life = 1 * Scale
          /\ SameExcept(game, game', {"velocityY", "isJumping",
                                      "usedDoubleJump", "particles"})
          /\ cues' = [cues EXCEPT !.jump = @ + 1]
          /\ <<gameState, score, highScore, pending>>'
                = <<gameState, score, highScore, pending>> ]_vars

\* a ground jump has been made with a charge in hand, and the charge is kept
C7_Witness == op = "ground" /\ game.hasDoubleJump /\ game.velocityY = 15 * Scale

\* C8: a jump() while playing, airborne, with a charge and the consumed flag
\* clear sets the velocity to 12.75 whatever it was, sets the consumed flag,
\* clears the charge, plays the jump cue once and appends exactly 6
\* particles; the player stays airborne where it is.
C8_DoubleJump ==
    [][ (PressStep /\ game.isJumping /\ game.hasDoubleJump
                   /\ ~game.usedDoubleJump) =>
          /\ op' = "double"
          /\ game'.velocityY = (1275 * Scale) \div 100
          /\ game'.usedDoubleJump
          /\ ~game'.hasDoubleJump
          /\ game'.isJumping
          /\ game'.playerY = game.playerY
          /\ Appended(game.particles, game'.particles, 6)
          /\ \A i \in 1..Len(game'.particles) :
                i > Len(game.particles) =>
                   /\ game'.particles[i].y = game.playerY + 25 * Scale
                   /\ game'.particles[i].life = 1 * Scale
          /\ SameExcept(game, game', {"velocityY", "usedDoubleJump",
                                      "hasDoubleJump", "particles"})
          /\ cues' = [cues EXCEPT !.jump = @ + 1]
          /\ <<gameState, score, highScore, pending>>'
                = <<gameState, score, highScore, pending>> ]_vars

\* a double jump has taken effect: one charge used, the velocity is 12.75
C8_Witness ==
    /\ op = "double" /\ doubles = 1
    /\ game.velocityY = (1275 * Scale) \div 100
    /\ game.usedDoubleJump /\ ~game.hasDoubleJump

\* C9: a jump() while playing and airborne with no charge, or with the extra
\* jump already used in this flight, changes nothing: RunState, the cues, the
\* score and the run state stay as they are.
C9_NoChargeNoJump ==
    [][ (PressStep /\ game.isJumping
            /\ (~game.hasDoubleJump \/ game.usedDoubleJump)) =>
          /\ op' = "none"
          /\ game' = game
          /\ cues' = cues
          /\ <<gameState, score, highScore, pending, storage>>'
                = <<gameState, score, highScore, pending, storage>> ]_vars

\* a third jump() has been refused in a flight with a ground jump and a
\* double jump
C9_Witness == op = "none" /\ doubles = 1 /\ game.usedDoubleJump /\ game.isJumping

C11_PhysicsTick ==
    /\ [](game.playerY >= 120 * Scale)
    /\ [][ /\ (TickStep /\ runState = "playing") =>
               IF game.isJumping
               THEN LET v == game.velocityY - (8 * Scale) \div 10
                        y == game.playerY + v
                    IN IF y <= 120 * Scale
                       THEN /\ game'.playerY = 120 * Scale
                            /\ game'.velocityY = 0
                            /\ ~game'.isJumping
                       ELSE /\ game'.velocityY = v
                            /\ game'.playerY = y
                            /\ game'.isJumping
               ELSE /\ game'.playerY = game.playerY
                    /\ game'.velocityY = game.velocityY
                    /\ ~game'.isJumping
           /\ game'.playerY >= 120 * Scale ]_vars

\* the player has just landed from a ground jump: the dust of the jump is 37
\* ticks old
C11_Witness ==
    /\ op = "tick" /\ ~game.isJumping
    /\ game.playerY = 120 * Scale /\ game.velocityY = 0
    /\ \E i \in 1..Len(game.particles) :
          /\ game.particles[i].y < 125 * Scale
          /\ game.particles[i].life = 1 * Scale - 37 * ((2 * Scale) \div 100)

\* C12: after every tick that completes while playing, the score is
\* floor(elapsed seconds * 10), elapsed from the run's start timestamp to the
\* tick's clock value, whatever the number of ticks and the previous score;
\* a tick at the clock value of the tick before it gives the same score, and
\* a tick at a later clock value never a smaller one.
C12_ScoreFromClock ==
    [][ (TickStep /\ runState = "playing" /\ op' = "tick") =>
          /\ runScore' = (now' - game'.startTime) \div 100
          /\ game'.startTime = game.startTime
          /\ now' = now => runScore' = runScore
          /\ now' >= now => runScore' >= runScore ]_vars

\* the first tick of a run has completed 25 s after the start, with score 250
C12_Witness ==
    /\ op = "tick" /\ runState = "playing" /\ game.frameCount = 1
    /\ now - game.startTime = 25016 /\ runScore = 250

\* C13: a clock value earlier than the run's start timestamp counts as
\* elapsed time 0: the score and the speed level are never negative, so the
\* scroll speed is never below the base speed 5 and the spawn interval never
\* above its base value 1800.
C13_ElapsedClamped ==
    /\ runScore >= 0
    /\ score >= 0
    /\ game.lastSpeedLevel >= 0
    /\ game.speed >= 5 * Scale
    /\ game.spawnInterval <= 1800

\* the speed level of the tick that ends at the primed state
LevelOfTick == (now' - game.startTime) \div 10000

\* C14, as claimed: for any sequence of tick timestamps the speed-up cue
\* fires exactly once for each speed level >= 1 the run crosses into and
\* never for a level already seen, so the cues fired in a run number the
\* highest speed level reached.
C14_CuePerLevel ==
    /\ [](runCues.speedUp = game.lastSpeedLevel)
    /\ [][ TickStep =>
              /\ game'.lastSpeedLevel = Max(game.lastSpeedLevel, LevelOfTick)
              /\ runCues'.speedUp - runCues.speedUp
                    = game'.lastSpeedLevel - game.lastSpeedLevel ]_vars

\* C14, amended: the speed-up cue fires exactly once in every tick whose
\* speed level exceeds the highest level seen so far in the run and in no
\* other tick, so never again for a level already seen; a tick that jumps
\* over several levels fires one cue for all of them, so the cues fired in a
\* run number at most the highest level reached, and exactly that when no
\* tick skips a level.
C14_CuePerRise ==
    /\ [](runCues.speedUp <= game.lastSpeedLevel)
    /\ [][ TickStep =>
              /\ game'.lastSpeedLevel = Max(game.lastSpeedLevel, LevelOfTick)
              /\ runCues'.speedUp - runCues.speedUp
                    = IF LevelOfTick > game.lastSpeedLevel THEN 1 ELSE 0
              /\ cues'.speedUp - cues.speedUp
                    = runCues'.speedUp - runCues.speedUp
              /\ runCues'.speedUp <= game'.lastSpeedLevel
              /\ (runCues.speedUp = game.lastSpeedLevel
                     /\ LevelOfTick <= game.lastSpeedLevel + 1) =>
                    runCues'.speedUp = game'.lastSpeedLevel ]_vars

\* the run is at level 1 for the second time, after it has been at level 2
\* and back at level 0, and the only cue is the one of the jump to level 2
C14_Witness ==
    /\ op = "tick" /\ runState = "playing"
    /\ (now - game.startTime) \div 10000 = 1
    /\ game.lastSpeedLevel = 2 /\ runCues.speedUp = 1

\* C15, as claimed: for any sequence of tick timestamps the milestone cue
\* fires exactly once for each hundred-point boundary the score crosses and
\* never for a boundary already seen, so the cues fired in a run number
\* floor(score / 100) of the run's score.
C15_CuePerBoundary ==
    /\ [](runState = "playing" => runCues.milestone = runScore \div 100)
    /\ [][ (TickStep /\ op' = "tick") =>
              /\ game'.lastMilestone = Max(game.lastMilestone, runScore' \div 100)
              /\ runCues'.milestone - runCues.milestone
                    = game'.lastMilestone - game.lastMilestone ]_vars

\* C15, amended: the milestone cue fires exactly once in every completed
\* tick whose index floor(score / 100) exceeds the highest index seen so far
\* in the run and in no other tick (a tick that ends the run sets neither
\* the score nor the index), so never again for a boundary already seen; a
\* tick that crosses several boundaries fires one cue for all of them, so
\* the cues fired in a run number at most the highest index reached, and
\* exactly that when no tick crosses more than one boundary.
C15_CuePerRise ==
    /\ [](runCues.milestone <= game.lastMilestone)
    /\ [][ TickStep =>
              /\ cues'.milestone - cues.milestone
                    = runCues'.milestone - runCues.milestone
              /\ runCues'.milestone <= game'.lastMilestone
              /\ IF op' = "tick"
                 THEN /\ game'.lastMilestone
                           = Max(game.lastMilestone, runScore' \div 100)
                      /\ runCues'.milestone - runCues.milestone
                           = IF runScore' \div 100 > game.lastMilestone
                             THEN 1 ELSE 0
                      /\ (runCues.milestone = game.lastMilestone
                             /\ runScore' \div 100 <= game.lastMilestone + 1) =>
                            runCues'.milestone = game'.lastMilestone
                 ELSE /\ game'.lastMilestone = game.lastMilestone
                      /\ runCues'.milestone = runCues.milestone ]_vars

\* the score is between 100 and 199 for the second time, after it has been
\* 250 and then below 100, and the only cue is the one of the jump to 250
C15_Witness ==
    /\ op = "tick" /\ runState = "playing"
    /\ runScore \div 100 = 1
    /\ game.lastMilestone = 2 /\ runCues.milestone = 1

\* C16: from idle, one activate input yields state playing with score 0; if
\* ticks then run with no jump and no collision until exactly 10.0 s have
\* elapsed, no speed-up cue fires at a tick before 10.0 s, and after the
\* tick at 10.0 s the score is 100, exactly one speed-up cue has fired in the
\* run and the state is still playing.
C16_TenSeconds ==
    /\ op = "start" =>
          /\ gameState = "playing" /\ runState = "playing"
          /\ score = 0 /\ runCues.speedUp = 0
    /\ (op \in {"tick", "death"} /\ runCues.jump = 0
          /\ now - game.startTime < 10000) => runCues.speedUp = 0
    /\ (op = "tick" /\ runCues.jump = 0 /\ runCues.crash = 0
          /\ now - game.startTime = 10000) =>
          /\ runScore = 100
          /\ runCues.speedUp = 1
          /\ runState = "playing"

\* the first run, started from idle, has completed its tick at 10.0 s
C16_Witness ==
    /\ op = "tick" /\ runs = 1 /\ runCues.jump = 0 /\ runCues.crash = 0
    /\ now - game.startTime = 10000 /\ runScore = 100

\* C17: a failing audio cue never affects the simulation: the jump() or the
\* tick that calls it ends with the RunState, the score and the run state it
\* has when the call succeeds, and the frame loop keeps ticking while the
\* state is playing.
C17_FailureIsHarmless ==
    /\ []((runState = "playing" /\ gameState = "playing") => rafPending)
    /\ [][ /\ PressStep =>
               /\ \E r \in ParticleDraws : game' = jump(game, r)
               /\ runScore' = runScore /\ runState' = runState
           /\ TickStep =>
               \E d \in Draws(now') :
                   LET u == update(game, now', canvasWidth, d)
                   IN /\ game' = u.game
                      /\ runState' = IF u.state = <<>> THEN runState
                                     ELSE u.state[1]
                      /\ runScore' = IF u.score = <<>> THEN runScore
                                     ELSE u.score[1] ]_vars

\* C18: after every tick, with the tick's speed level L, the scroll speed
\* is 5 + 0.7 * L and the spawn interval is max(800, 1800 - 100 * L): the
\* interval is at its floor 800 from level 10 on and above it below level 10;
\* from one tick to the next the interval does not grow and the speed does
\* not shrink when the level does not fall, and the speed grows with every
\* rise of the level.
C18_Difficulty ==
    [][ TickStep =>
          LET L == LevelOfTick
              before == (now - game.startTime) \div 10000
          IN /\ game'.speed = 5 * Scale + L * ((7 * Scale) \div 10)
             /\ game'.spawnInterval = Max(800, 1800 - 100 * L)
             /\ L >= 10 => game'.spawnInterval = 800
             /\ L < 10 => game'.spawnInterval > 800
             /\ (game.frameCount >= 1 /\ L >= before) =>
                   /\ game'.spawnInterval <= game.spawnInterval
                   /\ game'.speed >= game.speed
             /\ (game.frameCount >= 1 /\ L > before) =>
                   game'.speed > game.speed ]_vars

\* a tick at level 12 after one at level 10: the interval stays at its floor
\* and the speed is 5 + 0.7 * 12
C18_Witness ==
    /\ op = "tick" /\ (now - game.startTime) \div 10000 = 12
    /\ game.spawnInterval = 800
    /\ game.speed = (1340 * Scale) \div 100
    /\ game.frameCount >= 2

\* C19: every tick increments frameCount by exactly 1 and spawns exactly
\* one obstacle iff frameCount - lastSpawnFrame > spawnIntervalMs / 16, and
\* sets lastSpawnFrame to frameCount then; otherwise it spawns none.  So
\* lastSpawnFrame <= frameCount, the first obstacle of a run at speed level 0
\* appears on tick 113, and two spawns are at least 51 ticks apart.
C19_SpawnCadence ==
    /\ [](game.lastSpawn <= game.frameCount)
    /\ [][ TickStep =>
              /\ game'.frameCount = game.frameCount + 1
              /\ IF 16 * (game'.frameCount - game.lastSpawn) > game'.spawnInterval
                 THEN /\ game'.obstacleId = game.obstacleId + 1
                      /\ game'.lastSpawn = game'.frameCount
                      /\ Cardinality({i \in 1..Len(game'.obstacles) :
                                        game'.obstacles[i].id >= game.obstacleId}) = 1
                      /\ game'.frameCount - game.lastSpawn >= 51
                 ELSE /\ game'.obstacleId = game.obstacleId
                      /\ game'.lastSpawn = game.lastSpawn
                      /\ \A i \in 1..Len(game'.obstacles) :
                            game'.obstacles[i].id < game.obstacleId
              /\ (game.obstacleId = 0 /\ game'.spawnInterval = 1800) =>
                    (game'.obstacleId = 1 <=> game'.frameCount = 113) ]_vars

\* the second obstacle of a run at level 10 has been spawned 51 ticks after
\* the first
C19_Witness ==
    /\ op = "tick" /\ game.obstacleId = 2
    /\ game.lastSpawn = 102 /\ game.frameCount = 102
    /\ game.spawnInterval = 800

\* the obstacle spawned by the tick that ends at the primed state
NewObstacle == game'.obstacles[Len(game'.obstacles)]

\* the tick spawns an obstacle
SpawnStep == TickStep /\ game'.obstacleId # game.obstacleId

\* the new obstacle has the next unused id and was created at x = width + 50
\* (it has moved once, by the tick's speed)
NewObstaclePlaced ==
    /\ game'.obstacleId = game.obstacleId + 1
    /\ Len(game'.obstacles) >= 1
    /\ NewObstacle.id = game.obstacleId
    /\ \A i \in 1..Len(game'.obstacles) - 1 :
          game'.obstacles[i].id < NewObstacle.id
    /\ NewObstacle.x + game'.speed = canvasWidth + 50 * Scale

\* the new obstacle is a short or a tall one
NewObstacleGrounded ==
    \/ /\ NewObstacle.width = 25 * Scale /\ NewObstacle.height = 40 * Scale
       /\ NewObstacle.y = 120 * Scale
    \/ /\ NewObstacle.width = 20 * Scale /\ NewObstacle.height = 70 * Scale
       /\ NewObstacle.y = 120 * Scale

\* a draw that selects the airborne archetype
FlyingDraw == CHOOSE t \in TypeDraws : ObstacleType(t) = "flying"

\* C20, as claimed: every spawned obstacle is short (25 x 40 at the
\* baseline), tall (20 x 70 at the baseline) or airborne (35 x 30 at one
\* fixed offset above the baseline, the same whatever is drawn), and is
\* created at x = playfield width + 50 with the next unused id.
C20_FixedArchetypes ==
    [][ SpawnStep =>
          /\ NewObstaclePlaced
          /\ \/ NewObstacleGrounded
             \/ /\ NewObstacle.width = 35 * Scale
                /\ NewObstacle.height = 30 * Scale
                /\ \A p \in OffsetDraws :
                      LET h == spawnObstacle(game, canvasWidth, FlyingDraw, p)
                      IN NewObstacle.y = h.obstacles[Len(h.obstacles)].y ]_vars

\* C20, amended: every spawned obstacle is short (25 x 40 at the baseline),
\* tall (20 x 70 at the baseline) or airborne (35 x 30 at an offset above the
\* baseline drawn for each obstacle from [60, 90)), and is created at
\* x = playfield width + 50 with the next unused id.
C20_Archetypes ==
    [][ SpawnStep =>
          /\ NewObstaclePlaced
          /\ \/ NewObstacleGrounded
             \/ /\ NewObstacle.width = 35 * Scale
                /\ NewObstacle.height = 30 * Scale
                /\ NewObstacle.y >= 120 * Scale + 60 * Scale
                /\ NewObstacle.y < 120 * Scale + 90 * Scale ]_vars

\* an airborne obstacle has just been spawned more than 80 above the
\* baseline
C20_Witness ==
    /\ op = "tick" /\ game.lastSpawn = game.frameCount
    /\ \E i \in 1..Len(game.obstacles) :
          /\ game.obstacles[i].id = game.obstacleId - 1
          /\ game.obstacles[i].height = 30 * Scale
          /\ game.obstacles[i].y > 200 * Scale

\* the obstacles of g that reach into the player's horizontal extent [80,120]
InExtent(g) ==
    {i \in 1..Len(g.obstacles) :
        /\ g.obstacles[i].x < 120 * Scale
        /\ 80 * Scale < g.obstacles[i].x + g.obstacles[i].width}

\* C21, as claimed: a tick that leaves the player on the ground while an
\* obstacle of any archetype, the airborne one included, is in the player's
\* horizontal extent ends the run.
C21_FlyingNeedsJump ==
    [][ (TickStep /\ runState = "playing" /\ game'.playerY = 120 * Scale
           /\ InExtent(game') # {}) => runState' = "dead" ]_vars

\* C21, amended: the airborne archetype is cleared by staying on the ground:
\* its lower edge (180 or more) is above the top of a grounded player (170),
\* so a tick that leaves the player on the ground with obstacles in the
\* player's horizontal extent ends the run iff one of them is of a ground
\* archetype; an airborne obstacle is hit only by a player in the air.
C21_FlyingNeedsGround ==
    [][ (TickStep /\ runState = "playing" /\ game'.playerY = 120 * Scale
           /\ InExtent(game') # {}) =>
          /\ runState' = "dead" <=>
                \E i \in InExtent(game') : game'.obstacles[i].y = 120 * Scale
          /\ \A i \in InExtent(game') :
                \/ game'.obstacles[i].y = 120 * Scale
                \/ game'.obstacles[i].y >= 180 * Scale ]_vars

\* an airborne obstacle is over the head of a grounded player and the run
\* goes on
C21_Witness ==
    /\ op = "tick" /\ runState = "playing" /\ game.playerY = 120 * Scale
    /\ \E i \in InExtent(game) : game.obstacles[i].y >= 180 * Scale

Near(pu) ==
    LET dx == pu.x - 100 * Scale
        dy == pu.y - (game'.playerY + 25 * Scale)
    IN dx * dx + dy * dy < (45 * Scale) * (45 * Scale)

\* the particles of g that a pickup has pushed, of the given age
PickupParticles(g, life) ==
    {i \in 1..Len(g.particles) :
        /\ g.particles[i].color = "hsl(60, 100%, 60%)"
        /\ g.particles[i].size = 4 * Scale
        /\ g.particles[i].life = life}

\* C23: in a tick, a power-up that has moved left by the tick's speed is
\* collected iff its centre is strictly less than size + 20 = 45 from the
\* player's centre; a collected power-up leaves the list, sets the charge
\* (one charge, also if it was set), pushes exactly 12 particles and plays
\* the power-up cue once; a power-up that is not collected leaves the list
\* iff its x <= -50 and stays otherwise; a tick without a pickup leaves the
\* charge as it is.  (Particles are updated later in a completed tick and not
\* at all in a tick that ends the run, hence the two ages.)
C23_Pickup ==
    [][ TickStep =>
          LET old == game.powerUps
              moved(j) == [old[j] EXCEPT !.x = @ - game'.speed]
              taken == {j \in 1..Len(old) : Near(moved(j))}
              fresh == game'.powerUpId # game.powerUpId
              freshKept == \E i \in 1..Len(game'.powerUps) :
                              game'.powerUps[i].id = game.powerUpId
              n == Cardinality(taken) + IF fresh /\ ~freshKept THEN 1 ELSE 0
          IN /\ \A j \in 1..Len(old) :
                   (\E i \in 1..Len(game'.powerUps) : game'.powerUps[i] = moved(j))
                     <=> (j \notin taken /\ moved(j).x > -50 * Scale)
             /\ \A i \in 1..Len(game'.powerUps) :
                   /\ ~Near(game'.powerUps[i])
                   /\ game'.powerUps[i].x > -50 * Scale
                   /\ game'.powerUps[i].size = 25 * Scale
                   /\ \/ fresh /\ game'.powerUps[i].id = game.powerUpId
                      \/ \E j \in 1..Len(old) : game'.powerUps[i] = moved(j)
             /\ cues'.powerUp = cues.powerUp + n
             /\ game'.hasDoubleJump = (game.hasDoubleJump \/ n > 0)
             /\ Cardinality(PickupParticles(game',
                     IF op' = "tick" THEN 1 * Scale - (2 * Scale) \div 100
                                     ELSE 1 * Scale))
                  = 12 * n + Cardinality(PickupParticles(game, 1 * Scale)) ]_vars

\* a player in the air has just collected a power-up: the charge is set, the
\* list is empty and the 12 particles are one update old
C23_Witness ==
    /\ op = "tick" /\ cues.powerUp = 1 /\ game.hasDoubleJump
    /\ game.powerUps = <<>> /\ game.playerY > 120 * Scale
    /\ Cardinality(PickupParticles(game, 1 * Scale - (2 * Scale) \div 100)) = 12

\* one particle update of p
Decayed(p) ==
    [p EXCEPT !.x = @ + p.vx, !.y = @ + p.vy,
              !.vy = @ - (15 * Scale) \div 100,
              !.life = @ - (2 * Scale) \div 100]

\* C24: a tick that is completed updates every particle once: the velocity
\* is added to the position, vy drops by 0.15 and life by 0.02, and the
\* particle leaves the list iff its life is <= 0 afterwards; the others keep
\* their order, followed by the particles of this tick's pickups (updated
\* once too).  A particle is created with life 1, so it is in the list after
\* each of its first 49 updates (life 0.98 .. 0.02) and not after its 50th,
\* and every listed particle has 0 < life <= 1, life <= 0.98 after an update.
C24_ParticleDecay ==
    /\ [](\A i \in 1..Len(game.particles) :
            /\ game.particles[i].life > 0
            /\ game.particles[i].life <= 1 * Scale
            /\ game.particles[i].maxLife = 1 * Scale)
    /\ [][ op' = "tick" =>
             LET alive == SelectSeq(game.particles, LAMBDA p : Decayed(p).life > 0)
                 kept == [i \in 1..Len(alive) |-> Decayed(alive[i])]
                 new == game'.particles
             IN /\ Len(new) = Len(kept) + 12 * (cues'.powerUp - cues.powerUp)
                /\ SubSeq(new, 1, Len(kept)) = kept
                /\ \A i \in 1..Len(new) :
                      /\ new[i].life <= 1 * Scale - (2 * Scale) \div 100
                      /\ i > Len(kept) =>
                            new[i].life = 1 * Scale - (2 * Scale) \div 100 ]_vars

\* the dust of a jump made before tick 61 has been updated 50 times by tick
\* 110 and is gone
C24_Witness ==
    /\ op = "tick" /\ game.frameCount = 110 /\ runCues.jump = 1
    /\ game.particles = <<>> /\ runs = 1

IdsOf(list) == {list[i].id : i \in 1..Len(list)}

OneTickBack(g) ==
    [g EXCEPT !.playerY = @ - g.velocityY,
              !.obstacles = [i \in 1..Len(@) |-> [@[i] EXCEPT !.x = @ + g.speed]]]

\* C27: within a tick the physics step and the spawning and movement come
\* before the collision test, which comes before the particle update and
\* the score and milestone update: the tick ends the run iff the player's
\* box as the tick leaves it overlaps an obstacle as the tick leaves it (an
\* obstacle spawned in the tick has moved once); a tick that ends the run
\* has updated no particle, set no score and no milestone; a tick that is
\* completed has updated every particle, those of its pickups included, and
\* has set the score.  (Rendering changes nothing and is not observable.)
C27_TickOrder ==
    [][ TickStep =>
          /\ op' = "death" <=> Overlap(game')
          /\ game'.obstacleId # game.obstacleId =>
                game'.obstacles[Len(game'.obstacles)].x
                   = canvasWidth + 50 * Scale - game'.speed
          /\ op' = "death" =>
                /\ Len(game'.particles) >= Len(game.particles)
                /\ SubSeq(game'.particles, 1, Len(game.particles))
                      = game.particles
                /\ \A i \in 1..Len(game'.particles) :
                      i > Len(game.particles) =>
                         game'.particles[i].life = 1 * Scale
                /\ pending'.score = pending.score
                /\ game'.lastMilestone = game.lastMilestone
                /\ cues'.milestone = cues.milestone
          /\ op' = "tick" =>
                /\ \A i \in 1..Len(game'.particles) :
                      game'.particles[i].life < 1 * Scale
                /\ runScore' = (now' - game.startTime) \div 100
                /\ game'.lastMilestone >= runScore' \div 100 ]_vars

\* a collision in the air that the positions of the tick before do not show
C27_Witness ==
    /\ op = "death" /\ game.isJumping /\ Overlap(game)
    /\ ~Overlap(OneTickBack(game))

C29_OneLoop ==
    /\ [](scheduled <= 1)
    /\ [](gameState # "playing" => scheduled = 0)
    /\ [][ TickStep =>
             /\ scheduled = 1 /\ scheduled' = 1
             /\ game'.frameCount = game.frameCount + 1 ]_vars
    /\ [][ op' \in {"commit", "start"} =>
             scheduled' = IF gameState' = "playing" THEN 1 ELSE 0 ]_vars

\* in the second run the loop effect has been torn down and set up again for
\* a new score, and one callback is scheduled
C29_Witness ==
    /\ op = "commit" /\ runs = 2 /\ gameState = "playing" /\ score > 0
    /\ scheduled = 1

\* the player is airborne and exactly on the baseline
AirborneOnBaseline(g) == g.isJumping /\ g.playerY = 120 * Scale

\* C30: a player that is not airborne is at the baseline 120 with velocity 0
\* and never below the baseline; a player that is airborne is above the
\* baseline, except from a ground jump until the next tick: a step puts or
\* leaves an airborne player on the baseline only if it is that ground jump
\* or a step other than a tick after it.
C30_Grounded ==
    /\ [](~game.isJumping => game.playerY = 120 * Scale /\ game.velocityY = 0)
    /\ [](game.playerY >= 120 * Scale)
    /\ [][ AirborneOnBaseline(game') =>
             /\ ~TickStep
             /\ op' = "ground" \/ AirborneOnBaseline(game) ]_vars
    /\ [][ op' = "ground" => AirborneOnBaseline(game') ]_vars

\* the player has come down from a jump and has been put on the baseline
C30_Witness ==
    /\ op = "tick" /\ ~game.isJumping /\ runCues.jump >= 1
    /\ game.playerY = 120 * Scale /\ game.velocityY = 0
    /\ game.frameCount >= 535

\* the number of ticks a free fall from height y with velocity v (gravity
\* 0.8, baseline 120) takes to reach the baseline, counted from n
RECURSIVE FallTicks(_, _, _)
FallTicks(y, v, n) ==
    LET v2 == v - (80 * Scale) \div 100
        y2 == y + v2
    IN IF y2 <= 120 * Scale THEN n + 1 ELSE FallTicks(y2, v2, n + 1)

\* the ticks the player of g needs to land if no jump input arrives
TicksToLand(g) ==
    IF g.isJumping THEN FallTicks(g.playerY, g.velocityY, 0) ELSE 0

\* C31: every airborne phase ends after a bounded number of ticks: in every
\* state the player is at most 68 ticks from landing (36 ticks of a ground
\* jump and 32 of a double jump made then), every tick of an airborne player
\* brings the landing one tick nearer and lands the player when one tick
\* was left, a jump input without effect changes nothing, and a flight has
\* at most one double jump.  A ground jump is 37 ticks from landing: the
\* player is airborne after 36 ticks and lands on the 37th.
C31_Lands ==
    /\ [](TicksToLand(game) <= 68)
    /\ [][ (TickStep /\ game.isJumping) =>
             /\ TicksToLand(game') = TicksToLand(game) - 1
             /\ game'.isJumping <=> TicksToLand(game) > 1 ]_vars
    /\ [][ op' = "ground" => TicksToLand(game') = 37 ]_vars
    /\ [][ op' = "double" => ~game.usedDoubleJump /\ game'.usedDoubleJump ]_vars
    /\ [][ op' = "none" => TicksToLand(game') = TicksToLand(game) ]_vars

\* a ground jump made at frame 498, with no double jump, has landed on its
\* 37th tick
C31_Witness ==
    /\ op = "tick" /\ ~game.isJumping /\ runCues.jump = 1 /\ doubles = 0
    /\ game.frameCount = 498 + 37 /\ runs = 1

\* the highest point of a free flight that is at height y with velocity v
RECURSIVE Apex(_, _)
Apex(y, v) ==
    LET v2 == v - (80 * Scale) \div 100
    IN IF v2 <= 0 THEN y ELSE Apex(y + v2, v2)

\* the highest point the player of g reaches if no jump input arrives
ApexOf(g) == IF g.isJumping THEN Apex(g.playerY, g.velocityY) ELSE g.playerY

C33_GroundedCollectsNothing ==
    /\ [](\A i \in 1..Len(game.powerUps) :
            /\ game.powerUps[i].y >= 200 * Scale
            /\ game.powerUps[i].y - 145 * Scale >= 55 * Scale)
    /\ [][ \A i \in 1..Len(game.powerUps) : \A j \in 1..Len(game'.powerUps) :
             (op' # "start" /\ game.powerUps[i].id = game'.powerUps[j].id)
                => game.powerUps[i].y = game'.powerUps[j].y ]_vars
    /\ [][ (TickStep /\ game'.playerY = 120 * Scale) =>
             /\ cues'.powerUp = cues.powerUp
             /\ game'.hasDoubleJump = game.hasDoubleJump ]_vars
    /\ [][ (~game.hasDoubleJump /\ game'.hasDoubleJump) =>
             /\ TickStep
             /\ game'.isJumping
             /\ game'.playerY > 120 * Scale
             /\ cues'.powerUp > cues.powerUp ]_vars

\* a power-up is over a grounded player (within 40 of its centre's column)
\* and has not been collected
C33_Witness ==
    /\ op = "tick" /\ ~game.isJumping /\ Len(game.powerUps) = 1
    /\ game.powerUps[1].x > 60 * Scale /\ game.powerUps[1].x < 140 * Scale
    /\ ~game.hasDoubleJump /\ cues.powerUp = 0

\* the ticks since the last power-up spawn of the run
PowerUpAge == game.frameCount - game.lastPowerUpSpawn

LevelNow == (now' - game.startTime) \div 10000

\* C35: lastMilestone <= lastSpeedLevel in every state.  A tick raises
\* lastSpeedLevel to floor(elapsedSeconds / 10) if that is higher; a tick that
\* is completed leaves lastMilestone equal to it, a tick that ends the run
\* leaves lastMilestone as it was.  So the two differ only after a tick that
\* ends the run, and from then until the next completed tick or reset.
C35_MilestoneFollowsLevel ==
    /\ [](game.lastMilestone <= game.lastSpeedLevel)
    /\ [][ TickStep =>
             /\ game'.lastSpeedLevel = Max(game.lastSpeedLevel, LevelNow)
             /\ op' = "tick" => game'.lastMilestone = game'.lastSpeedLevel
             /\ op' = "death" => game'.lastMilestone = game.lastMilestone ]_vars
    /\ [][ game'.lastMilestone # game'.lastSpeedLevel =>
             \/ op' = "death"
             \/ /\ op' # "tick"
                /\ game.lastMilestone # game.lastSpeedLevel ]_vars

\* the tick in which the tenth second ends has ended the run: the speed
\* level is 1 and the milestone index still 0
C35_Witness ==
    /\ op = "death" /\ game.lastSpeedLevel = 1 /\ game.lastMilestone = 0
    /\ runCues.speedUp = 1 /\ runCues.milestone = 0

\* the part of C36 about RunState and the cues: a tick that ends the run has
\* run its physics step, its speed-level update with the speed-up cue, its
\* spawns, its movement and its pickups, and has not touched the particles
\* that were there (the particles of its pickups and the 30 of the crash are
\* appended, none has aged), has set no score and no milestone.
C36_StopsBeforeParticles ==
    [][ op' = "death" =>
          /\ game'.frameCount = game.frameCount + 1
          /\ IF game.isJumping
                /\ game.playerY + game.velocityY - (80 * Scale) \div 100
                      > 120 * Scale
             THEN /\ game'.velocityY = game.velocityY - (80 * Scale) \div 100
                  /\ game'.playerY = game.playerY + game'.velocityY
             ELSE /\ game'.playerY = 120 * Scale /\ game'.velocityY = 0
          /\ game'.lastSpeedLevel = Max(game.lastSpeedLevel, LevelNow)
          /\ cues'.speedUp
                = cues.speedUp + IF LevelNow > game.lastSpeedLevel THEN 1 ELSE 0
          /\ game'.speed = 5 * Scale + (LevelNow * 7 * Scale) \div 10
          /\ \A i \in 1..Len(game.obstacles) :
                \A j \in 1..Len(game'.obstacles) :
                   game.obstacles[i].id = game'.obstacles[j].id
                      => game'.obstacles[j].x = game.obstacles[i].x - game'.speed
          /\ game'.hasDoubleJump
                = (game.hasDoubleJump \/ cues'.powerUp > cues.powerUp)
          /\ Len(game'.particles) = Len(game.particles) + 30
                                      + 12 * (cues'.powerUp - cues.powerUp)
          /\ SubSeq(game'.particles, 1, Len(game.particles)) = game.particles
          /\ \A i \in 1..Len(game'.particles) :
                i > Len(game.particles) => game'.particles[i].life = 1 * Scale
          /\ pending'.score = pending.score
          /\ runScore' = runScore
          /\ game'.lastMilestone = game.lastMilestone
          /\ cues'.milestone = cues.milestone ]_vars

\* C36: the tick that detects a collision stops before the particle update
\* and the score update (as above), and the score it compares with the best
\* score, and stores when it is higher, is the score the previous tick has
\* computed.
C36_DeathTick ==
    /\ C36_StopsBeforeParticles
    /\ [][ (op' = "death" /\ runState = "playing") =>
             /\ writes' # writes <=> runScore > highScore
             /\ writes' # writes => storage' = <<runScore>> ]_vars

====
